---- MODULE Spec2Model ----
(***************************************************************************)
(* A model of cite_arxiv_article.py: the command-line tool that fetches    *)
(* the arXiv API record of one article and prints a BibTeX entry for it.   *)
(*                                                                         *)
(* Python strings are modelled as sequences of one-character strings, so   *)
(* that count, rfind, replace, split and slicing are computed as Python    *)
(* computes them.  The literal pieces of a %-format string are kept as     *)
(* single multi-character elements of the sequence (a "chunk"); the text   *)
(* the program writes is the concatenation of the elements.                *)
(***************************************************************************)
EXTENDS Integers, Sequences, FiniteSets, TLC

VARIABLES
    \* ---- fix_abstract_url applied to generated links (SpecUrl)
    upc,        \* "input", "once", "twice": how often the link was normalized
    uid,        \* the article identifier the link was built from
    uver,       \* the version digits the link was built from
    uform,      \* "raw" (http, version suffix) or "normalized" (https, no suffix)
    uin,        \* the link before any normalization
    uprev,      \* the link before the latest normalization
    ucur,       \* the link after the latest normalization
    \* ---- make_tag applied to generated records (SpecTag)
    tpc,        \* "input", "tagged"
    tnames,     \* the author names the record's author field was joined from
    tcd,        \* the CitationData handed to make_tag
    ttag,       \* what make_tag returned or raised
    \* ---- parse_response applied to generated responses (SpecParse)
    ppc,        \* "input", "parsed"
    presponse,  \* the response body handed to parse_response
    presult,    \* what parse_response returned or raised
    \* ---- one run of main (Spec)
    pc,             \* the place main has reached
    identifier,     \* args.identifier[0]
    spires,         \* args.SPIRES
    copy,           \* args.copy
    url,            \* the value of make_url(...)
    requests,       \* the URLs of the HTTP GETs issued so far
    response,       \* the value of get_data_from_arXiv(...)
    cd,             \* the value of parse_response(...)
    bibtex_output,  \* the value of format_citation_data(...)
    stdout,         \* what was written to standard output
    stderr,         \* what was written to standard error
    exit_status,    \* "running", or the status the process ended with
    clipboard,      \* what xclip received
    steps,          \* the calls that completed normally, in order
    exception       \* the name of the exception that was raised, "" if none

urlvars == <<upc, uid, uver, uform, uin, uprev, ucur>>
tagvars == <<tpc, tnames, tcd, ttag>>
parsevars == <<ppc, presponse, presult>>
mainvars == <<pc, identifier, spires, copy, url, requests, response, cd,
              bibtex_output, stdout, stderr, exit_status, clipboard, steps, exception>>

vars == <<urlvars, tagvars, parsevars, mainvars>>

(***************************************************************************)
(* Bounds of the model.                                                    *)
(***************************************************************************)
MaxIdLen == 4
MaxVerLen == 2
MaxAuthors == 2
MaxLinks == 2

(***************************************************************************)
(* Python primitives.                                                      *)
(***************************************************************************)
SeqsUpTo(S, n) == UNION {[1..k -> S] : k \in 0..n}

\* Python's None where a str or an object is expected: no string equals it
NoneValue == <<"<None>">>

\* what a call gives: a value returned, or an exception raised
Returned(v) == [ok |-> TRUE, val |-> v, err |-> "", info |-> "", count |-> 0]
Raised(e, i) == [ok |-> FALSE, val |-> NoneValue, err |-> e, info |-> i, count |-> 0]
RaisedCount(e, i, n) == [ok |-> FALSE, val |-> NoneValue, err |-> e, info |-> i, count |-> n]

\* s.startswith(p)
StartsWith(s, p) == Len(s) >= Len(p) /\ SubSeq(s, 1, Len(p)) = p

\* sub in s
Contains(s, sub) ==
    \E i \in 1..(Len(s) - Len(sub) + 1) : SubSeq(s, i, i + Len(sub) - 1) = sub

\* s.count(c) for a single character c
Count(s, c) == Cardinality({i \in 1..Len(s) : s[i] = c})

\* s.rfind(c) for a single character c, as a Python (0-based) index; -1 if absent
RFind(s, c) ==
    IF \E i \in 1..Len(s) : s[i] = c
    THEN (CHOOSE i \in 1..Len(s) : s[i] = c /\ \A j \in (i+1)..Len(s) : s[j] # c) - 1
    ELSE -1

\* s.find(c) for a single character c, as a Python (0-based) index; -1 if absent
Find(s, c) ==
    IF \E i \in 1..Len(s) : s[i] = c
    THEN (CHOOSE i \in 1..Len(s) : s[i] = c /\ \A j \in 1..(i-1) : s[j] # c) - 1
    ELSE -1

\* s[:k] for k >= 0
Prefix(s, k) == SubSeq(s, 1, IF k < Len(s) THEN k ELSE Len(s))

\* s[-k:] for k > 0
Suffix(s, k) == SubSeq(s, IF Len(s) - k + 1 < 1 THEN 1 ELSE Len(s) - k + 1, Len(s))

\* s.replace(old, new): every non-overlapping occurrence, scanning left to right
RECURSIVE Replace(_, _, _)
Replace(s, old, new) ==
    IF Len(s) < Len(old) THEN s
    ELSE IF StartsWith(s, old)
         THEN new \o Replace(SubSeq(s, Len(old) + 1, Len(s)), old, new)
         ELSE <<Head(s)>> \o Replace(Tail(s), old, new)

\* sep.join(list)
RECURSIVE Join(_, _)
Join(sep, list) ==
    IF list = <<>> THEN <<>>
    ELSE IF Len(list) = 1 THEN list[1]
    ELSE list[1] \o sep \o Join(sep, Tail(list))

\* s.split(sep) for a non-empty separator: never an empty list
RECURSIVE SplitOn(_, _)
SplitOn(s, sep) ==
    IF ~Contains(s, sep) THEN <<s>>
    ELSE LET i == CHOOSE k \in 1..Len(s) :
                      /\ SubSeq(s, k, k + Len(sep) - 1) = sep
                      /\ \A j \in 1..(k-1) : SubSeq(s, j, j + Len(sep) - 1) # sep
         IN  <<SubSeq(s, 1, i - 1)>> \o SplitOn(SubSeq(s, i + Len(sep), Len(s)), sep)

Whitespace == {" ", "\t", "\n", "\r"}
IsSpace(c) == c \in Whitespace

\* s.split(): the maximal runs of non-whitespace characters
RECURSIVE SplitWs(_)
SplitWs(s) ==
    IF s = <<>> THEN <<>>
    ELSE IF IsSpace(Head(s)) THEN SplitWs(Tail(s))
    ELSE LET n == CHOOSE k \in 1..Len(s) :
                      /\ \A j \in 1..k : ~IsSpace(s[j])
                      /\ (k = Len(s) \/ IsSpace(s[k+1]))
         IN  <<SubSeq(s, 1, n)>> \o SplitWs(SubSeq(s, n + 1, Len(s)))

\* list[-1] of a non-empty list
Last(list) == list[Len(list)]

\* '%s' % x
Str(x) == IF x = NoneValue THEN <<"N", "o", "n", "e">> ELSE x

(***************************************************************************)
(* make_url, fix_abstract_url                                              *)
(***************************************************************************)
QueryPrefix == "http://export.arxiv.org/api/query?id_list="

make_url(id) == <<QueryPrefix>> \o id

Http == <<"h", "t", "t", "p">>
Https == <<"h", "t", "t", "p", "s">>

\* fix_abstract_url cutting at the first v (find for rfind)
fix_abstract_url_find(u) ==
    LET cut == IF Count(u, "v") > 1 THEN Prefix(u, Find(u, "v")) ELSE u
    IN  Replace(cut, Http, Https)

fix_abstract_url(u) ==
    LET cut == IF Count(u, "v") > 1 THEN Prefix(u, RFind(u, "v")) ELSE u
    IN  Replace(cut, Http, Https)

(***************************************************************************)
(* CitationData, make_tag                                                  *)
(***************************************************************************)
CitationData(author, title, year, link) ==
    [author |-> author, title |-> title, year |-> year, link |-> link]

AndSep == <<" ", "a", "n", "d", " ">>
SurnameLen == 3
TagYearLen == 2

\* the first whitespace-delimited token, where the code takes the last
SurnameFirstToken(author) == SplitWs(author)[1]

\* author.split()[-1]
Surname(author) == Last(SplitWs(author))

\* author.split()[-1][0] for every author, in order
RECURSIVE Initials(_)
Initials(author_list) ==
    IF author_list = <<>> THEN <<>>
    ELSE <<Surname(Head(author_list))[1]>> \o Initials(Tail(author_list))

make_tag(c) ==
    LET multiple_authors == Contains(c.author, AndSep)
    IN  IF multiple_authors
        THEN LET author_list == SplitOn(c.author, AndSep)
             IN  IF \E i \in 1..Len(author_list) : SplitWs(author_list[i]) = <<>>
                 THEN Raised("IndexError", "list index out of range")
                 ELSE Returned(Initials(author_list) \o Suffix(c.year, TagYearLen))
        ELSE IF SplitWs(c.author) = <<>>
             THEN Raised("IndexError", "list index out of range")
             ELSE Returned(Prefix(Surname(c.author), SurnameLen)
                           \o Suffix(c.year, TagYearLen))

(***************************************************************************)
(* The response body, as the parser sees it.  An element is absent, or     *)
(* present with no text (ElementTree's .text is then None), or present     *)
(* with text.  An author is given by its name child; a link by its type    *)
(* and href attributes, None when the attribute is missing.  xmlns tells   *)
(* how the root declares its default namespace: "none", "double" (the      *)
(* form xmlns="..." that the regular expression removes) or "single"       *)
(* (xmlns='...', which it does not match).                                 *)
(***************************************************************************)
AbsentElt == [present |-> FALSE, text |-> NoneValue]
EmptyElt == [present |-> TRUE, text |-> NoneValue]
TextElt(t) == [present |-> TRUE, text |-> t]

Link(type, href) == [type |-> type, href |-> href]
Entry(authors, title, published, links) ==
    [authors |-> authors, title |-> title, published |-> published, links |-> links]
Response(decodable, wellformed, xmlns, entries) ==
    [decodable |-> decodable, wellformed |-> wellformed, xmlns |-> xmlns,
     entries |-> entries]

TextHtml == <<"text/html">>
ApplicationPdf == <<"application/pdf">>
YearLen == 4

\* re.sub(' xmlns="[^"]+"', '', xmlstring, count=1): is the default namespace gone?
NamespaceStripped(r) == r.xmlns # "single"

\* ET.fromstring(xmlstring).find('entry'): the first child named entry, as a
\* list of one element; the empty list for None.  With the default namespace
\* left in place every element is named {namespace}entry and none matches.
FindEntry(r) ==
    IF NamespaceStripped(r) /\ r.entries # <<>> THEN <<r.entries[1]>> ELSE <<>>

IsHtml(l) == l.type = TextHtml

\* the first text/html link alone, where the code keeps them all
article_links_first(root) == Prefix(SelectSeq(root.links, IsHtml), 1)

\* list(filter(lambda x: x.get('type') == 'text/html', root.findall('link')))
article_links(root) == SelectSeq(root.links, IsHtml)

\* lines 75-86: the fields of the entry, in the order the code reads them
parse_entry(root) ==
    IF \E i \in 1..Len(root.authors) : ~root.authors[i].present
    THEN Raised("AttributeError", "'NoneType' object has no attribute 'text'")
    ELSE IF \E i \in 1..Len(root.authors) : root.authors[i].text = NoneValue
    THEN Raised("TypeError", "sequence item: expected str instance, NoneType found")
    ELSE IF ~root.title.present
    THEN Raised("AttributeError", "'NoneType' object has no attribute 'text'")
    ELSE IF ~root.published.present
    THEN Raised("AttributeError", "'NoneType' object has no attribute 'text'")
    ELSE IF root.published.text = NoneValue
    THEN Raised("TypeError", "'NoneType' object is not subscriptable")
    ELSE IF Len(article_links(root)) # 1
    THEN RaisedCount("ValueError", "Something weird happened: %d PDF links",
                     Len(article_links(root)))
    ELSE IF article_links(root)[1].href = NoneValue
    THEN Raised("AttributeError", "'NoneType' object has no attribute 'count'")
    ELSE Returned(CitationData(
            Join(AndSep, [i \in 1..Len(root.authors) |-> root.authors[i].text]),
            root.title.text,
            Prefix(root.published.text, YearLen),
            fix_abstract_url(article_links(root)[1].href)))

\* a missing entry taken for an entry without children
parse_response_empty_entry(r) ==
    IF ~r.decodable THEN Raised("UnicodeDecodeError", "invalid start byte")
    ELSE IF ~r.wellformed THEN Raised("ParseError", "not well-formed (invalid token)")
    ELSE IF FindEntry(r) = <<>>
    THEN Returned(CitationData(<<>>, NoneValue, <<>>, <<>>))
    ELSE parse_entry(FindEntry(r)[1])

parse_response(r) ==
    IF ~r.decodable THEN Raised("UnicodeDecodeError", "invalid start byte")
    ELSE IF ~r.wellformed THEN Raised("ParseError", "not well-formed (invalid token)")
    ELSE IF FindEntry(r) = <<>>
    THEN Raised("AttributeError", "'NoneType' object has no attribute 'findall'")
    ELSE parse_entry(FindEntry(r)[1])

(***************************************************************************)
(* format_citation_data: the literal pieces of the two format strings      *)
(***************************************************************************)
ArticleOpen == "@article{"
AuthorField == ",\n\tauthor = {"
TitleField == "},\n\ttitle = {"
YearField == "},\n\tyear = {"
NoteField == "},\n\tnote = {\\url{"
NoteClose == "}}\n}"
EprintField == "},\n\teprint = {"
ArchivePrefixClose == "},\n\tarchivePrefix = \"arXiv\"\n}"

FormatChunks == {ArticleOpen, AuthorField, TitleField, YearField, NoteField,
                 NoteClose, EprintField, ArchivePrefixClose}

\* the SPIRES branch with the default branch's field order
format_citation_data_same_order(c, id, spire_style) ==
    LET tag == make_tag(c)
    IN  IF ~tag.ok THEN tag
        ELSE IF spire_style
        THEN Returned(<<ArticleOpen>> \o Str(tag.val) \o <<AuthorField>> \o Str(c.author)
                      \o <<TitleField>> \o Str(c.title) \o <<YearField>> \o Str(c.year)
                      \o <<EprintField>> \o Str(id) \o <<ArchivePrefixClose>>)
        ELSE Returned(<<ArticleOpen>> \o Str(tag.val) \o <<AuthorField>> \o Str(c.author)
                      \o <<TitleField>> \o Str(c.title) \o <<YearField>> \o Str(c.year)
                      \o <<NoteField>> \o Str(c.link) \o <<NoteClose>>)

format_citation_data(c, id, spire_style) ==
    LET tag == make_tag(c)
    IN  IF ~tag.ok THEN tag
        ELSE IF spire_style
        THEN Returned(<<ArticleOpen>> \o Str(tag.val) \o <<AuthorField>> \o Str(c.author)
                      \o <<YearField>> \o Str(c.year) \o <<TitleField>> \o Str(c.title)
                      \o <<EprintField>> \o Str(id) \o <<ArchivePrefixClose>>)
        ELSE Returned(<<ArticleOpen>> \o Str(tag.val) \o <<AuthorField>> \o Str(c.author)
                      \o <<TitleField>> \o Str(c.title) \o <<YearField>> \o Str(c.year)
                      \o <<NoteField>> \o Str(c.link) \o <<NoteClose>>)

\* what the interpreter writes to standard error for an uncaught exception
Traceback(e) == <<"Traceback (most recent call last):\n", e.err, ": ", e.info, "\n">>

(***************************************************************************)
(* The inputs the specifications draw from.                                *)
(***************************************************************************)
HttpAbs == <<"h","t","t","p",":","/","/","a","r","x","i","v",".","o","r","g","/","a","b","s","/">>
HttpsAbs == <<"h","t","t","p","s",":","/","/","a","r","x","i","v",".","o","r","g","/","a","b","s","/">>

Id1312 == <<"1","3","1","2",".","7","1","8","8">>
IdHepTh == <<"h","e","p","-","t","h","/","0","6","0","5","1","9","8">>
IdSolv == <<"s","o","l","v","-","i","n","t","/","9","9">>

IdAlphabet == {"h", "t", "p", "v"}
Digits == {"1", "2"}

Ids == (SeqsUpTo(IdAlphabet, MaxIdLen) \ {<<>>}) \cup {Id1312, IdHepTh, IdSolv}
Versions == SeqsUpTo(Digits, MaxVerLen) \ {<<>>}

RawLink(id, ver) == HttpAbs \o id \o <<"v">> \o ver
NormalLink(id) == HttpsAbs \o id

Witten == <<"E","d","w","a","r","d"," ","W","i","t","t","e","n">>
Moore == <<"G","r","e","g","o","r","y"," ","W","."," ","M","o","o","r","e">>
Neumann == <<"J","."," ","v","o","n"," ","N","e","u","m","a","n","n">>
Li == <<"L","i">>
TabO == <<"A","n","n","\t","O"," ">>
Blank == <<" ">>
RockAndRoll == <<"R","o","c","k"," ","a","n","d"," ","R","o","l","l">>

Names == {Witten, Moore, Neumann, Li, TabO, Blank, RockAndRoll, <<>>}

Year1990 == <<"1","9","9","0">>
Year2016 == <<"2","0","1","6">>
Years == {Year1990, Year2016, <<"7">>}

ATitle == <<"O","n"," ","K">>
Published2016 == Year2016 \o <<"-","0","5","-","0","1","T","0","0",":","0","0","Z">>
PdfHref == <<"h","t","t","p",":","/","/","a","r","x","i","v",".","o","r","g","/","p","d","f","/">>
              \o Id1312 \o <<"v","2">>

HtmlLink == Link(TextHtml, RawLink(Id1312, <<"2">>))
PdfLink == Link(ApplicationPdf, PdfHref)
HtmlNoHref == Link(TextHtml, NoneValue)
HtmlEmptyHref == Link(TextHtml, <<>>)

AuthorElts == {AbsentElt, EmptyElt, TextElt(Witten), TextElt(Moore)}
TitleElts == {AbsentElt, EmptyElt, TextElt(ATitle)}
PublishedElts == {AbsentElt, EmptyElt, TextElt(Published2016)}
LinkElts == {HtmlLink, PdfLink, HtmlNoHref, HtmlEmptyHref}

GoodEntry == Entry(<<TextElt(Witten)>>, TextElt(ATitle), TextElt(Published2016),
                   <<HtmlLink, PdfLink>>)

Entries ==
    {Entry(a, t, p, l) : a \in SeqsUpTo(AuthorElts, MaxAuthors), t \in TitleElts,
                         p \in PublishedElts, l \in SeqsUpTo(LinkElts, MaxLinks)}

Feed(entries) == Response(TRUE, TRUE, "double", entries)

\* not UTF-8; not XML; no entry; the default namespace left in place
BadResponses ==
    {Response(FALSE, TRUE, "double", <<GoodEntry>>),
     Response(TRUE, FALSE, "double", <<GoodEntry>>),
     Feed(<<>>),
     Response(TRUE, TRUE, "none", <<>>),
     Response(TRUE, TRUE, "single", <<GoodEntry>>)}

ParseResponses ==
    BadResponses
    \cup {Feed(<<e>>) : e \in Entries}
    \cup {Response(TRUE, TRUE, "none", <<GoodEntry>>)}
    \cup {Feed(<<Entry(<<>>, AbsentElt, AbsentElt, <<>>), GoodEntry>>),
          Feed(<<GoodEntry, Entry(<<>>, AbsentElt, AbsentElt, <<>>)>>)}

MainAuthorElts == {AbsentElt, TextElt(Witten), TextElt(Moore)}
MainLinks == {<<HtmlLink>>, <<>>, <<PdfLink, HtmlLink>>, <<HtmlLink, HtmlLink>>}

MainResponses ==
    BadResponses
    \cup {Feed(<<Entry(a, t, TextElt(Published2016), l)>>) :
            a \in SeqsUpTo(MainAuthorElts, MaxAuthors),
            t \in {TextElt(ATitle), EmptyElt}, l \in MainLinks}

Identifiers == {Id1312, IdHepTh}

(***************************************************************************)
(* The parts of the state a specification does not use stay parked.        *)
(***************************************************************************)
UrlIdle ==
    /\ upc = "idle" /\ uid = <<>> /\ uver = <<>> /\ uform = "idle"
    /\ uin = <<>> /\ uprev = <<>> /\ ucur = <<>>

TagIdle ==
    /\ tpc = "idle" /\ tnames = <<>>
    /\ tcd = CitationData(<<>>, <<>>, <<>>, <<>>)
    /\ ttag = Returned(<<>>)

ParseIdle ==
    /\ ppc = "idle" /\ presponse = Feed(<<>>) /\ presult = Returned(NoneValue)

MainIdle ==
    /\ pc = "idle" /\ identifier = <<>> /\ spires = FALSE /\ copy = FALSE
    /\ url = <<>> /\ requests = <<>> /\ response = NoneValue /\ cd = NoneValue
    /\ bibtex_output = <<>> /\ stdout = <<>> /\ stderr = <<>>
    /\ exit_status = "running" /\ clipboard = <<>> /\ steps = <<>>
    /\ exception = ""

(***************************************************************************)
(* SpecUrl: fix_abstract_url applied, once and then again, to the links    *)
(* of the two forms the program meets: the raw link of the API response    *)
(* and the link it has already normalized.                                 *)
(***************************************************************************)
InitUrl ==
    /\ upc = "input"
    /\ uid \in Ids
    /\ \/ uform = "raw" /\ uver \in Versions
       \/ uform = "normalized" /\ uver = <<>>
    /\ uin = IF uform = "raw" THEN RawLink(uid, uver) ELSE NormalLink(uid)
    /\ uprev = uin
    /\ ucur = uin
    /\ TagIdle /\ ParseIdle /\ MainIdle

Normalize ==
    /\ upc = "input"
    /\ upc' = "once"
    /\ uprev' = ucur
    /\ ucur' = fix_abstract_url(ucur)
    /\ UNCHANGED <<uid, uver, uform, uin, tagvars, parsevars, mainvars>>

Renormalize ==
    /\ upc = "once"
    /\ upc' = "twice"
    /\ uprev' = ucur
    /\ ucur' = fix_abstract_url(ucur)
    /\ UNCHANGED <<uid, uver, uform, uin, tagvars, parsevars, mainvars>>

NextUrl == Normalize \/ Renormalize

SpecUrl == InitUrl /\ [][NextUrl]_vars

(***************************************************************************)
(* SpecTag: make_tag applied to records whose author field is joined from  *)
(* up to MaxAuthors names.                                                 *)
(***************************************************************************)
InitTag ==
    /\ tpc = "input"
    /\ tnames \in SeqsUpTo(Names, MaxAuthors)
    /\ \E y \in Years : tcd = CitationData(Join(AndSep, tnames), ATitle, y, NormalLink(Id1312))
    /\ ttag = Returned(<<>>)
    /\ UrlIdle /\ ParseIdle /\ MainIdle

MakeTag ==
    /\ tpc = "input"
    /\ tpc' = "tagged"
    /\ ttag' = make_tag(tcd)
    /\ UNCHANGED <<tnames, tcd, urlvars, parsevars, mainvars>>

NextTag == MakeTag

SpecTag == InitTag /\ [][NextTag]_vars

(***************************************************************************)
(* SpecParse: parse_response applied to the response bodies.               *)
(***************************************************************************)
InitParse ==
    /\ ppc = "input"
    /\ presponse \in ParseResponses
    /\ presult = Returned(NoneValue)
    /\ UrlIdle /\ TagIdle /\ MainIdle

ParseResponse ==
    /\ ppc = "input"
    /\ ppc' = "parsed"
    /\ presult' = parse_response(presponse)
    /\ UNCHANGED <<presponse, urlvars, tagvars, mainvars>>

NextParse == ParseResponse

SpecParse == InitParse /\ [][NextParse]_vars

(***************************************************************************)
(* Spec: one run of main.                                                  *)
(***************************************************************************)
Init ==
    /\ pc = "start" /\ identifier = <<>> /\ spires = FALSE /\ copy = FALSE
    /\ url = <<>> /\ requests = <<>> /\ response = NoneValue /\ cd = NoneValue
    /\ bibtex_output = <<>> /\ stdout = <<>> /\ stderr = <<>>
    /\ exit_status = "running" /\ clipboard = <<>> /\ steps = <<>>
    /\ exception = ""
    /\ UrlIdle /\ TagIdle /\ ParseIdle

\* an exception nobody catches: the traceback goes to standard error, status 1
Uncaught(e) ==
    /\ stderr' = stderr \o Traceback(e)
    /\ exception' = e.err
    /\ exit_status' = "1"
    /\ pc' = "exit"

\* args = parser.parse_args()
ParseArgs ==
    /\ pc = "start"
    /\ identifier' \in Identifiers
    /\ spires' \in BOOLEAN
    /\ copy' \in BOOLEAN
    /\ pc' = "args"
    /\ UNCHANGED <<url, requests, response, cd, bibtex_output, stdout, stderr,
                   exit_status, clipboard, steps, exception, urlvars, tagvars, parsevars>>

\* make_url(args.identifier[0])
MakeUrl ==
    /\ pc = "args"
    /\ url' = make_url(identifier)
    /\ steps' = Append(steps, "make_url")
    /\ pc' = "url"
    /\ UNCHANGED <<identifier, spires, copy, requests, response, cd, bibtex_output,
                   stdout, stderr, exit_status, clipboard, exception,
                   urlvars, tagvars, parsevars>>

\* get_data_from_arXiv: urlopen(url).read() returns the body
GetData ==
    /\ pc = "url"
    /\ requests' = Append(requests, url)
    /\ response' \in MainResponses
    /\ steps' = Append(steps, "get_data_from_arXiv")
    /\ pc' = "fetched"
    /\ UNCHANGED <<identifier, spires, copy, url, cd, bibtex_output, stdout, stderr,
                   exit_status, clipboard, exception, urlvars, tagvars, parsevars>>

\* the except branch with print's file=sys.stderr left out
GetDataURLErrorToStdout ==
    /\ pc = "url"
    /\ requests' = Append(requests, url)
    /\ stdout' = stdout \o <<"Error: something went wrong when using the arXiv API.", "\n",
                             "URL: ">> \o url \o <<"\n">>
    /\ exception' = "URLError"
    /\ exit_status' = "255"
    /\ pc' = "exit"
    /\ UNCHANGED <<identifier, spires, copy, url, response, cd, bibtex_output, stderr,
                   clipboard, steps, urlvars, tagvars, parsevars>>

\* get_data_from_arXiv: urlopen raises URLError; the except branch reports the
\* URL and calls exit(-1), which the system sees as status 255
GetDataURLError ==
    /\ pc = "url"
    /\ requests' = Append(requests, url)
    /\ stderr' = stderr \o <<"Error: something went wrong when using the arXiv API.", "\n",
                             "URL: ">> \o url \o <<"\n">>
    /\ exception' = "URLError"
    /\ exit_status' = "255"
    /\ pc' = "exit"
    /\ UNCHANGED <<identifier, spires, copy, url, response, cd, bibtex_output, stdout,
                   clipboard, steps, urlvars, tagvars, parsevars>>

\* get_data_from_arXiv: urlopen(url).read() raises an exception that is no
\* URLError (http.client.RemoteDisconnected when the server closes the
\* connection before it answers); the except clause does not match it
GetDataRemoteDisconnected ==
    /\ pc = "url"
    /\ requests' = Append(requests, url)
    /\ Uncaught(Raised("RemoteDisconnected", "Remote end closed connection without response"))
    /\ UNCHANGED <<identifier, spires, copy, url, response, cd, bibtex_output, stdout,
                   clipboard, steps, urlvars, tagvars, parsevars>>

\* parse_response(...) returns the CitationData
ParseResponseReturns ==
    /\ pc = "fetched"
    /\ parse_response(response).ok
    /\ cd' = parse_response(response).val
    /\ steps' = Append(steps, "parse_response")
    /\ pc' = "parsed"
    /\ UNCHANGED <<identifier, spires, copy, url, requests, response, bibtex_output,
                   stdout, stderr, exit_status, clipboard, exception,
                   urlvars, tagvars, parsevars>>

\* parse_response(...) raises
ParseResponseRaises ==
    /\ pc = "fetched"
    /\ ~parse_response(response).ok
    /\ Uncaught(parse_response(response))
    /\ UNCHANGED <<identifier, spires, copy, url, requests, response, cd, bibtex_output,
                   stdout, clipboard, steps, urlvars, tagvars, parsevars>>

\* format_citation_data(...) returns the block; make_tag returned inside it
FormatReturns ==
    /\ pc = "parsed"
    /\ format_citation_data(cd, identifier, spires).ok
    /\ bibtex_output' = format_citation_data(cd, identifier, spires).val
    /\ steps' = steps \o <<"make_tag", "format_citation_data">>
    /\ pc' = "formatted"
    /\ UNCHANGED <<identifier, spires, copy, url, requests, response, cd,
                   stdout, stderr, exit_status, clipboard, exception,
                   urlvars, tagvars, parsevars>>

\* format_citation_data(...) raises what make_tag raised
FormatRaises ==
    /\ pc = "parsed"
    /\ ~format_citation_data(cd, identifier, spires).ok
    /\ Uncaught(format_citation_data(cd, identifier, spires))
    /\ UNCHANGED <<identifier, spires, copy, url, requests, response, cd, bibtex_output,
                   stdout, clipboard, steps, urlvars, tagvars, parsevars>>

\* print(bibtex_output)
PrintOutput ==
    /\ pc = "formatted"
    /\ stdout' = stdout \o bibtex_output \o <<"\n">>
    /\ steps' = Append(steps, "print")
    /\ pc' = "printed"
    /\ UNCHANGED <<identifier, spires, copy, url, requests, response, cd, bibtex_output,
                   stderr, exit_status, clipboard, exception, urlvars, tagvars, parsevars>>

\* args.copy is false: main returns
Return ==
    /\ pc = "printed" /\ ~copy
    /\ exit_status' = "0"
    /\ pc' = "exit"
    /\ UNCHANGED <<identifier, spires, copy, url, requests, response, cd, bibtex_output,
                   stdout, stderr, clipboard, steps, exception, urlvars, tagvars, parsevars>>

\* copy_to_clipboard(bibtex_output): xclip takes the text
CopyToClipboard ==
    /\ pc = "printed" /\ copy
    /\ clipboard' = bibtex_output
    /\ steps' = Append(steps, "copy_to_clipboard")
    /\ exit_status' = "0"
    /\ pc' = "exit"
    /\ UNCHANGED <<identifier, spires, copy, url, requests, response, cd, bibtex_output,
                   stdout, stderr, exception, urlvars, tagvars, parsevars>>

\* copy_to_clipboard(bibtex_output): there is no xclip, Popen raises
CopyToClipboardNoXclip ==
    /\ pc = "printed" /\ copy
    /\ Uncaught(Raised("FileNotFoundError", "[Errno 2] No such file or directory: 'xclip'"))
    /\ UNCHANGED <<identifier, spires, copy, url, requests, response, cd, bibtex_output,
                   stdout, clipboard, steps, urlvars, tagvars, parsevars>>

Next ==
    \/ ParseArgs
    \/ MakeUrl
    \/ GetData
    \/ GetDataURLError
    \/ GetDataRemoteDisconnected
    \/ ParseResponseReturns
    \/ ParseResponseRaises
    \/ FormatReturns
    \/ FormatRaises
    \/ PrintOutput
    \/ Return
    \/ CopyToClipboard
    \/ CopyToClipboardNoXclip

Spec == Init /\ [][Next]_vars

(***************************************************************************)
(* What the properties are stated with.  These say what a result is, and   *)
(* do not compute it the way the program does.                             *)
(***************************************************************************)
Min(a, b) == IF a < b THEN a ELSE b

\* the first k characters of s, all of s when it is shorter
FirstChars(s, k) == [i \in 1..Min(k, Len(s)) |-> s[i]]

\* the last k characters of s, all of s when it is shorter
LastChars(s, k) == [i \in 1..Min(k, Len(s)) |-> s[Len(s) - Min(k, Len(s)) + i]]

HasToken(s) == \E i \in 1..Len(s) : ~IsSpace(s[i])

\* the last whitespace-delimited token of s: the longest run without
\* whitespace that ends at the last character that is not whitespace
LastToken(s) ==
    LET e == CHOOSE i \in 1..Len(s) :
                 ~IsSpace(s[i]) /\ \A j \in (i+1)..Len(s) : IsSpace(s[j])
        b == CHOOSE i \in 1..e :
                 /\ \A j \in i..e : ~IsSpace(s[j])
                 /\ (i = 1 \/ IsSpace(s[i-1]))
    IN  SubSeq(s, b, e)

\* the authors of a record: its author field split on ' and '
Authors(c) == SplitOn(c.author, AndSep)

\* is x a string with at least one character
NonEmpty(x) == x # NoneValue /\ x # <<>>

\* the number of link children of an entry whose type is text/html
HtmlCount(e) == Cardinality({i \in 1..Len(e.links) : e.links[i].type = TextHtml})

\* the entry's author names, title and published date can all be read
FieldsReadable(e) ==
    /\ \A i \in 1..Len(e.authors) : e.authors[i].present /\ e.authors[i].text # NoneValue
    /\ e.title.present
    /\ e.published.present /\ e.published.text # NoneValue

\* a required element of the entry is absent
RequiredAbsent(e) ==
    \/ e.authors = <<>>
    \/ ~e.title.present
    \/ ~e.published.present
    \/ HtmlCount(e) # 1

\* the parser got as far as an entry
EntryFound(r) == r.decodable /\ r.wellformed /\ FindEntry(r) # <<>>

IsChunk(x) == x \in FormatChunks

\* the literal pieces of a block, in the order they appear
Literals(out) == SelectSeq(out, IsChunk)

\* the text between a literal piece and the next one
ValueAfter(out, chunk) ==
    LET i == CHOOSE k \in 1..Len(out) : out[k] = chunk
        j == CHOOSE k \in (i+1)..Len(out) :
                 IsChunk(out[k]) /\ \A m \in (i+1)..(k-1) : ~IsChunk(out[m])
    IN  SubSeq(out, i + 1, j - 1)

\* a block from its opening to its closing brace, and the newline print adds
CompleteBlock(text) ==
    /\ Len(text) >= 3
    /\ Head(text) = ArticleOpen
    /\ text[Len(text) - 1] \in {NoteClose, ArchivePrefixClose}
    /\ text[Len(text)] = "\n"

PipelineSteps ==
    <<"make_url", "get_data_from_arXiv", "parse_response", "make_tag",
      "format_citation_data", "print">>

Failed == exit_status \notin {"running", "0"}

\* the exceptions of a request that failed on the network
NetworkErrors == {"URLError", "RemoteDisconnected"}

\* C1: a run writes to standard output either the complete block, and only
\* after make_url, the fetch, parse_response, make_tag and
\* format_citation_data have all returned, or nothing at all; a run that ends
\* with nothing written has reported an error and ended with a failure status.
C1_AllOrNothing ==
    /\ \/ stdout = <<>>
       \/ /\ CompleteBlock(stdout)
          /\ Prefix(steps, Len(PipelineSteps)) = PipelineSteps
          /\ stdout = format_citation_data(cd, identifier, spires).val \o <<"\n">>
    /\ (pc = "exit" /\ stdout = <<>>) => (stderr # <<>> /\ Failed)

\* C1 witness: make_tag raised inside format_citation_data, the last place
\* where the run can fail before print: nothing written, error reported.
C1_Witness ==
    /\ pc = "exit" /\ exception = "IndexError"
    /\ stdout = <<>> /\ stderr # <<>> /\ Failed

\* C2 as stated: whenever the entry has zero or at least two text/html links,
\* parse_response raises the error that carries the count; with exactly one,
\* the link stored is that link's href, normalized.
C2_CountErrorAlways ==
    (ppc = "parsed" /\ EntryFound(presponse)) =>
        LET e == FindEntry(presponse)[1]
        IN  /\ HtmlCount(e) # 1 =>
                /\ ~presult.ok
                /\ presult.err = "ValueError" /\ presult.count = HtmlCount(e)
            /\ (HtmlCount(e) = 1 /\ presult.ok) =>
                \E i \in 1..Len(e.links) :
                    /\ e.links[i].type = TextHtml
                    /\ presult.val.link = fix_abstract_url(e.links[i].href)

\* C2 amended: whenever the entry has zero or at least two text/html links,
\* parse_response raises and returns no CitationData, and what it raises is
\* the error that carries the count if the author names, the title and the
\* published date could be read; with exactly one such link and a record
\* returned, the link stored is that link's href, normalized.
C2_NeverPicksSilently ==
    (ppc = "parsed" /\ EntryFound(presponse)) =>
        LET e == FindEntry(presponse)[1]
        IN  /\ HtmlCount(e) # 1 =>
                /\ ~presult.ok /\ presult.val = NoneValue
                /\ FieldsReadable(e) =>
                      (presult.err = "ValueError" /\ presult.count = HtmlCount(e))
            /\ (HtmlCount(e) = 1 /\ presult.ok) =>
                \E i \in 1..Len(e.links) :
                    /\ e.links[i].type = TextHtml
                    /\ presult.val.link = fix_abstract_url(e.links[i].href)

\* C2 witness: two text/html links, and the error carries the count 2
C2_Witness ==
    /\ ppc = "parsed" /\ EntryFound(presponse)
    /\ HtmlCount(FindEntry(presponse)[1]) = 2
    /\ ~presult.ok /\ presult.err = "ValueError" /\ presult.count = 2

\* C3: a well-formed response without an entry makes parse_response raise at
\* the entry it did not find, before any field is read, and no record comes
\* back; that failure, in turn, happens only when no entry was found.
C3_MissingEntryFails ==
    LET missing == "'NoneType' object has no attribute 'findall'"
    IN  /\ (ppc = "parsed" /\ presponse.decodable /\ presponse.wellformed
                /\ presponse.entries = <<>>)
            => /\ ~presult.ok /\ presult.val = NoneValue
               /\ presult.err = "AttributeError" /\ presult.info = missing
        /\ (ppc = "parsed" /\ presult.info = missing) => FindEntry(presponse) = <<>>

\* C3 witness: the feed without entries has been parsed and no record returned
C3_Witness ==
    /\ ppc = "parsed" /\ presponse = Feed(<<>>)
    /\ ~presult.ok /\ presult.err = "AttributeError"

\* a link in normalized form: https scheme, exactly one v
IsNormalized(u) == StartsWith(u, Https) /\ Count(u, "v") = 1

\* C4: normalizing a link that is already normalized (https scheme, exactly
\* one v) returns it unchanged, and so normalizing a raw link
\* http://arxiv.org/abs/<id>v<n> twice gives the same as normalizing it once.
C4_NormalizeIdempotent ==
    /\ (upc = "once" /\ IsNormalized(uin)) => ucur = uin
    /\ (upc = "twice" /\ uform = "raw") => ucur = uprev

\* C5: for an identifier without the substring http and a version of digits,
\* http://arxiv.org/abs/<id>v<n> is normalized to https://arxiv.org/abs/<id>:
\* cut at the last v, scheme http replaced by https.
C5_RawLinkNormalized ==
    (upc = "once" /\ uform = "raw" /\ ~Contains(uid, Http))
        => ucur = HttpsAbs \o uid

\* C5 witness: http://arxiv.org/abs/1312.7188v2 has become https://arxiv.org/abs/1312.7188
C5_Witness ==
    /\ upc = "once"
    /\ uin = HttpAbs \o Id1312 \o <<"v", "2">>
    /\ ucur = HttpsAbs \o Id1312

\* C6: with more than one author (the author field split on ' and '), each
\* with a surname token, the tag is the first character of every author's last
\* whitespace-delimited token, in author order, and then the last two
\* characters of the year.
C6_InitialsTag ==
    (tpc = "tagged" /\ Len(Authors(tcd)) > 1
        /\ \A i \in 1..Len(Authors(tcd)) : HasToken(Authors(tcd)[i]))
    =>  LET n == Len(Authors(tcd))
        IN  /\ ttag.ok
            /\ Len(ttag.val) = n + Len(LastChars(tcd.year, 2))
            /\ \A i \in 1..n : ttag.val[i] = LastToken(Authors(tcd)[i])[1]
            /\ SubSeq(ttag.val, n + 1, Len(ttag.val)) = LastChars(tcd.year, 2)

\* C6 witness: Gregory W. Moore and Edward Witten, 1990, tagged MW90
C6_Witness ==
    /\ tpc = "tagged"
    /\ tcd.author = Moore \o AndSep \o Witten /\ tcd.year = Year1990
    /\ ttag.ok /\ ttag.val = <<"M", "W", "9", "0">>

\* C7: with exactly one author, who has a surname token, the tag is the first
\* three characters of the author's last whitespace-delimited token (all of
\* it when it is shorter, and no error) and then the last two characters of
\* the year.
C7_SurnameTag ==
    (tpc = "tagged" /\ Len(Authors(tcd)) = 1 /\ HasToken(tcd.author))
    =>  /\ ttag.ok
        /\ ttag.val = FirstChars(LastToken(tcd.author), 3) \o LastChars(tcd.year, 2)

\* C7 witness: Edward Witten, 2016, tagged Wit16
C7_Witness ==
    /\ tpc = "tagged"
    /\ tcd.author = Witten /\ tcd.year = Year2016
    /\ ttag.ok /\ ttag.val = <<"W", "i", "t", "1", "6">>

\* C8: the block opens with make_tag's key and holds, in this order, author,
\* title, year and a note with the link inside \url{} in the default style,
\* and author, year, title, eprint with the identifier and the archivePrefix
\* "arXiv" in the SPIRES style; the SPIRES block holds no link and the default
\* block no eprint field.
C8_FieldOrder ==
    bibtex_output # <<>> =>
        LET out == bibtex_output
        IN  /\ ValueAfter(out, ArticleOpen) = make_tag(cd).val
            /\ ValueAfter(out, AuthorField) = cd.author
            /\ ValueAfter(out, TitleField) = Str(cd.title)
            /\ ValueAfter(out, YearField) = cd.year
            /\ IF spires
               THEN /\ Literals(out) = <<ArticleOpen, AuthorField, YearField, TitleField,
                                         EprintField, ArchivePrefixClose>>
                    /\ ValueAfter(out, EprintField) = identifier
                    /\ ~Contains(out, cd.link)
               ELSE /\ Literals(out) = <<ArticleOpen, AuthorField, TitleField, YearField,
                                         NoteField, NoteClose>>
                    /\ ValueAfter(out, NoteField) = cd.link

\* C8 witness: a SPIRES block for hep-th/0605198 has been printed
C8_Witness ==
    /\ pc = "printed" /\ spires /\ identifier = IdHepTh
    /\ Contains(stdout, <<EprintField>> \o IdHepTh \o <<ArchivePrefixClose>>)

\* C9: every record parse_response returns has a non-empty author, title,
\* year and link, and parse_response raises whenever the entry has no author,
\* no title, no published date or not exactly one text/html link.
C9_FieldsNonEmpty ==
    /\ (ppc = "parsed" /\ presult.ok) =>
            /\ NonEmpty(presult.val.author) /\ NonEmpty(presult.val.title)
            /\ NonEmpty(presult.val.year) /\ NonEmpty(presult.val.link)
    /\ (ppc = "parsed" /\ EntryFound(presponse)
            /\ RequiredAbsent(FindEntry(presponse)[1])) => ~presult.ok

\* C10: a run issues at most one HTTP GET; when the request fails on the
\* network, the run ends with a failure status after writing an error and the
\* URL to standard error, having issued that one request, and without
\* parsing, formatting, printing or copying anything.
C10_FetchFailureReported ==
    /\ Len(requests) <= 1
    /\ (pc = "exit" /\ exception \in NetworkErrors) =>
            /\ requests = <<url>>
            /\ stderr # <<>> /\ Contains(stderr, url)
            /\ Failed
            /\ steps = <<"make_url">>
            /\ stdout = <<>> /\ clipboard = <<>>

====
